---------------------------- MODULE Spec2Model ----------------------------
(***************************************************************************)
(* Model of src/main.py: the DNI lookup gateway.                           *)
(*                                                                         *)
(* One HTTP request is followed from its arrival to its response:          *)
(*   GET  /dni/{dni}   consultar_dni   (single lookup)                     *)
(*   POST /dni/lote    consultar_lote  (batch lookup, semaphore of 5)      *)
(* Both routes run the dependency verificar_api_key first.                 *)
(*                                                                         *)
(* A DNI is a sequence of characters; a character is a one-element string, *)
(* "sup2" and "ar3" stand for the non-ASCII digits U+00B2 and U+0663.      *)
(***************************************************************************)
EXTENDS Integers, Sequences, FiniteSets, TLC

VARIABLES
    SEEKER_TOKEN,   \* os.getenv("SEEKER_TOKEN", "")
    API_KEY,        \* os.getenv("API_KEY", "")
    ruta,           \* "dni" | "lote" | "validador"
    x_api_key,      \* header X-Api-Key of the request, "None" when absent
    dni,            \* path parameter of GET /dni/{dni}
    dnis,           \* body of POST /dni/lote
    pc,             \* position of the request handler
    semaforo,       \* free slots of asyncio.Semaphore(5)
    unidad,         \* position of each consultar_uno coroutine
    ret,            \* return value of each consultar_uno coroutine
    respuesta,      \* HTTP response sent to the caller
    llamadas,       \* number of client.post calls issued so far
    contesta,       \* what the upstream answered to each call ("ninguna": not yet)
    veredicto,      \* outcome of the validator run (validator specification)
    conc            \* two requests served at the same time (concurrent specification)

vars == <<SEEKER_TOKEN, API_KEY, ruta, x_api_key, dni, dnis, pc, semaforo,
          unidad, ret, respuesta, llamadas, contesta, veredicto, conc>>

config == <<SEEKER_TOKEN, API_KEY>>
peticion == <<ruta, x_api_key, dni, dnis>>

-----------------------------------------------------------------------------
(* Bounds of the model *)

\* longest batch whose dispatch is explored
MaxKeys == 6
\* longest batch built from every combination of the sample keys
MaxMixto == 2
\* longest string given to the validator specification
MaxStrLen == 9
\* longest batch of the second of two concurrent requests
MaxOtra == 2

-----------------------------------------------------------------------------
(* Program constants *)

\* consultar_lote: if len(dnis) > 20
MAX_LOTE == 20
\* consultar_lote: asyncio.Semaphore(5)
K == 5
\* length test of both routes: len(dni) != 8
LONGITUD_DNI == 8

-----------------------------------------------------------------------------
(* Characters and str.isdigit() *)

AsciiDigitos == {"0", "1", "2", "3", "4", "5", "6", "7", "8", "9"}
\* characters outside 0-9 for which Python's str.isdigit() is True
OtrosDigitos == {"sup2", "ar3"}

\* str.isdigit(): non-empty and every character has the Unicode digit property
isdigit(s) == Len(s) > 0 /\ \A i \in 1..Len(s) : s[i] \in AsciiDigitos \cup OtrosDigitos

\* the test of lines 56 and 92, negated: the key is let through
DniValido(d) == isdigit(d) /\ Len(d) = LONGITUD_DNI

\* invalidos = [d for d in dnis if not d.isdigit() or len(d) != 8]
Invalidos(ds) == SelectSeq(ds, LAMBDA d : ~DniValido(d))

-----------------------------------------------------------------------------
(* Inputs *)

V1 == <<"1", "2", "3", "4", "5", "6", "7", "8">>
V2 == <<"8", "7", "6", "5", "4", "3", "2", "1">>
Corto == <<"1", "2", "3", "4", "5", "6", "7">>
Largo == <<"1", "2", "3", "4", "5", "6", "7", "8", "9">>
Alfa == <<"1", "2", "3", "4", "5", "6", "7", "a">>
Uni == <<"1", "2", "3", "4", "5", "6", "7", "sup2">>
Vacio == << >>

Muestras == {V1, V2, Corto, Largo, Alfa, Uni, Vacio}

Alterna(n) == [i \in 1..n |-> IF i % 2 = 1 THEN V1 ELSE V2]
Repite(n, d) == [i \in 1..n |-> d]

Mixtos == UNION {[1..n -> Muestras] : n \in 0..MaxMixto}
Lotes == Mixtos
         \cup {Alterna(n) : n \in 0..MaxKeys}
         \cup {Repite(MAX_LOTE, d) : d \in {Corto, Alfa}}
         \cup {Repite(MAX_LOTE + 1, d) : d \in {V1, Corto}}
         \cup {Alterna(MAX_LOTE + 1), [Alterna(MAX_LOTE + 1) EXCEPT ![3] = Alfa]}

Tokens == {"", "tok"}
Claves == {"", "secreta"}
Cabeceras == {"None", "secreta", "otra"}

\* what the upstream does with one client.post
Respuestas == {"json", "no_json", "http_404", "timeout"}
\* the single lookup is also run against an upstream that answers 401
RespuestasDni == Respuestas \cup {"http_401"}

-----------------------------------------------------------------------------
(* Upstream answers *)

\* response.raise_for_status() raises httpx.HTTPStatusError
EsHttpError(ans) == ans \in {"http_404", "http_401"}
\* client.post raises httpx.RequestError (connection failure, timeout)
EsRequestError(ans) == ans = "timeout"
\* e.response.status_code of the HTTPStatusError
StatusDe(ans) == IF ans = "http_404" THEN 404 ELSE 401
\* response.json() of the upstream document for key d
Json(d) == <<"persona", d>>
\* str(e) of the exception the answer raises
StrExc(ans) == <<"excepcion", ans>>

Ninguna == [status |-> 0]
Error(code, det) == [status |-> code, detail |-> det]

-----------------------------------------------------------------------------
(* verificar_api_key *)

\* faulty variant: the header is compared even when no API_KEY is configured
ApiKeyRechazaSiempre == x_api_key # API_KEY

\* if API_KEY and x_api_key != API_KEY
ApiKeyRechaza == API_KEY # "" /\ x_api_key # API_KEY

VerificarApiKey ==
    /\ pc = "auth"
    /\ IF ApiKeyRechaza
       THEN /\ respuesta' = Error(401, <<"API Key invalida o ausente">>)
            /\ pc' = "done"
       ELSE /\ pc' = "handler"
            /\ UNCHANGED respuesta
    /\ UNCHANGED <<config, peticion, semaforo, unidad, ret, llamadas, contesta, veredicto, conc>>

-----------------------------------------------------------------------------
(* consultar_dni *)

\* faulty variant: the SEEKER_TOKEN check is missing
ConsultarDniSinToken ==
    /\ pc = "handler" /\ ruta = "dni"
    /\ IF ~DniValido(dni)
       THEN /\ respuesta' = Error(400, <<"DNI debe tener exactamente 8 digitos">>)
            /\ pc' = "done"
            /\ UNCHANGED llamadas
       ELSE /\ llamadas' = llamadas + 1
            /\ pc' = "post"
            /\ UNCHANGED respuesta
    /\ UNCHANGED <<config, peticion, semaforo, unidad, ret, contesta, veredicto, conc>>

\* the handler up to its first await: validation, credential check, client.post
ConsultarDni ==
    /\ pc = "handler" /\ ruta = "dni"
    /\ IF ~DniValido(dni)
       THEN /\ respuesta' = Error(400, <<"DNI debe tener exactamente 8 digitos">>)
            /\ pc' = "done"
            /\ UNCHANGED llamadas
       ELSE IF SEEKER_TOKEN = ""
       THEN /\ respuesta' = Error(500, <<"SEEKER_TOKEN no configurado en Railway">>)
            /\ pc' = "done"
            /\ UNCHANGED llamadas
       ELSE /\ llamadas' = llamadas + 1
            /\ pc' = "post"
            /\ UNCHANGED respuesta
    /\ UNCHANGED <<config, peticion, semaforo, unidad, ret, contesta, veredicto, conc>>

\* faulty variant: every upstream HTTP error is reported as 502
RespuestaDni502(ans) ==
    IF ans = "json" THEN [status |-> 200, json |-> Json(dni)]
    ELSE IF EsHttpError(ans) THEN Error(502, <<"Error de seeker.red", ans>>)
    ELSE IF EsRequestError(ans) THEN Error(503, <<"Error de conexion", ans>>)
    ELSE Error(500, <<"Internal Server Error">>)

\* what the caller gets for the upstream's answer: the document, the
\* HTTPException of either except clause, or the 500 of an uncaught exception
RespuestaDni(ans) ==
    IF ans = "json" THEN [status |-> 200, json |-> Json(dni)]
    ELSE IF EsHttpError(ans) THEN Error(StatusDe(ans), <<"Error de seeker.red", ans>>)
    ELSE IF EsRequestError(ans) THEN Error(503, <<"Error de conexion", ans>>)
    ELSE Error(500, <<"Internal Server Error">>)

DniPost(ans) ==
    /\ pc = "post"
    /\ contesta' = <<ans>>
    /\ respuesta' = RespuestaDni(ans)
    /\ pc' = "done"
    /\ UNCHANGED <<config, peticion, semaforo, unidad, ret, llamadas, veredicto, conc>>

-----------------------------------------------------------------------------
(* consultar_lote *)

\* faulty variant: the size cap is off by one
ExcedeTopeMasUno(ds) == Len(ds) > MAX_LOTE + 1

\* if len(dnis) > 20
ExcedeTope(ds) == Len(ds) > MAX_LOTE

Unidades == 1..Len(dnis)
EnVuelo == {i \in DOMAIN unidad : unidad[i] = "en_vuelo"}
Esperando == {i \in DOMAIN unidad : unidad[i] = "esperando"}
Pendiente == [status |-> "pendiente"]

ConsultarLote ==
    /\ pc = "handler" /\ ruta = "lote"
    /\ IF ExcedeTope(dnis)
       THEN /\ respuesta' = Error(400, <<"Maximo 20 DNIs por lote">>)
            /\ pc' = "done"
            /\ UNCHANGED <<semaforo, unidad, ret, contesta>>
       ELSE IF Invalidos(dnis) # << >>
       THEN /\ respuesta' = Error(400, <<"DNIs invalidos", Invalidos(dnis)>>)
            /\ pc' = "done"
            /\ UNCHANGED <<semaforo, unidad, ret, contesta>>
       ELSE /\ semaforo' = K
            /\ unidad' = [i \in Unidades |-> "creada"]
            /\ ret' = [i \in Unidades |-> Pendiente]
            /\ contesta' = [i \in Unidades |-> "ninguna"]
            /\ pc' = "gather"
            /\ UNCHANGED respuesta
    /\ UNCHANGED <<config, peticion, llamadas, veredicto, conc>>

\* faulty variant: the slot test lets a unit in when no slot is left
HayCupoDeMas == semaforo >= 0

\* faulty variant: the last slot is never handed out
HayCupoMenosUno == semaforo > 1

\* Semaphore.acquire() returns without waiting
HayCupo == semaforo > 0

\* first step of the task of unit i: async with semaforo, then client.post.
\* asyncio.gather starts the tasks in the order of the list.
Iniciar(i) ==
    /\ pc = "gather" /\ unidad[i] = "creada"
    /\ \A j \in 1..(i - 1) : unidad[j] # "creada"
    /\ IF HayCupo
       THEN /\ semaforo' = semaforo - 1
            /\ unidad' = [unidad EXCEPT ![i] = "en_vuelo"]
            /\ llamadas' = llamadas + 1
       ELSE /\ unidad' = [unidad EXCEPT ![i] = "esperando"]
            /\ UNCHANGED <<semaforo, llamadas>>
    /\ UNCHANGED <<config, peticion, pc, ret, respuesta, contesta, veredicto, conc>>

\* a unit blocked in Semaphore.acquire() gets a slot and issues client.post
Adquirir(i) ==
    /\ pc = "gather" /\ unidad[i] = "esperando"
    /\ HayCupo
    /\ semaforo' = semaforo - 1
    /\ unidad' = [unidad EXCEPT ![i] = "en_vuelo"]
    /\ llamadas' = llamadas + 1
    /\ UNCHANGED <<config, peticion, pc, ret, respuesta, contesta, veredicto, conc>>

\* faulty variant: every item carries both fields, the unused one empty
ResultadoConAmbos(d, ans) ==
    IF ans = "json"
    THEN [dni |-> d, status |-> "ok", data |-> Json(d), detalle |-> << >>]
    ELSE [dni |-> d, status |-> "error", data |-> << >>, detalle |-> StrExc(ans)]

\* return value of consultar_uno
Resultado(d, ans) ==
    IF ans = "json"
    THEN [dni |-> d, status |-> "ok", data |-> Json(d)]
    ELSE [dni |-> d, status |-> "error", detalle |-> StrExc(ans)]

\* faulty variant: a failing unit cancels the units that have not finished
TerminarCancelando(i, ans) ==
    /\ pc = "gather" /\ unidad[i] = "en_vuelo"
    /\ contesta' = [contesta EXCEPT ![i] = ans]
    /\ IF ans = "json"
       THEN /\ ret' = [ret EXCEPT ![i] = Resultado(dnis[i], ans)]
            /\ unidad' = [unidad EXCEPT ![i] = "terminada"]
            /\ semaforo' = semaforo + 1
       ELSE /\ ret' = [j \in DOMAIN ret |->
                        IF unidad[j] = "terminada" THEN ret[j]
                        ELSE Resultado(dnis[j], ans)]
            /\ unidad' = [j \in DOMAIN unidad |-> "terminada"]
            /\ semaforo' = K
    /\ UNCHANGED <<config, peticion, pc, respuesta, llamadas, veredicto, conc>>

\* faulty variant: only httpx errors are caught, a body that is not JSON escapes the
\* unit and gather re-raises it to the handler
TerminarPropaga(i, ans) ==
    /\ pc = "gather" /\ unidad[i] = "en_vuelo"
    /\ contesta' = [contesta EXCEPT ![i] = ans]
    /\ unidad' = [unidad EXCEPT ![i] = "terminada"]
    /\ semaforo' = semaforo + 1
    /\ IF ans = "no_json"
       THEN /\ respuesta' = Error(500, <<"Internal Server Error">>)
            /\ pc' = "done"
            /\ UNCHANGED ret
       ELSE /\ ret' = [ret EXCEPT ![i] = Resultado(dnis[i], ans)]
            /\ UNCHANGED <<pc, respuesta>>
    /\ UNCHANGED <<config, peticion, llamadas, veredicto, conc>>

\* faulty variant: a unit whose call failed issues the call again
TerminarReintenta(i, ans) ==
    /\ pc = "gather" /\ unidad[i] = "en_vuelo"
    /\ contesta' = [contesta EXCEPT ![i] = ans]
    /\ IF ans = "json" \/ contesta[i] # "ninguna"
       THEN /\ ret' = [ret EXCEPT ![i] = Resultado(dnis[i], ans)]
            /\ unidad' = [unidad EXCEPT ![i] = "terminada"]
            /\ semaforo' = semaforo + 1
            /\ UNCHANGED llamadas
       ELSE /\ llamadas' = llamadas + 1
            /\ UNCHANGED <<ret, unidad, semaforo>>
    /\ UNCHANGED <<config, peticion, pc, respuesta, veredicto, conc>>

\* faulty variant: the slot is released once more than it was acquired
TerminarLiberaDos(i, ans) ==
    /\ pc = "gather" /\ unidad[i] = "en_vuelo"
    /\ ret' = [ret EXCEPT ![i] = Resultado(dnis[i], ans)]
    /\ unidad' = [unidad EXCEPT ![i] = "terminada"]
    /\ semaforo' = semaforo + (IF ans = "json" THEN 1 ELSE 2)
    /\ contesta' = [contesta EXCEPT ![i] = ans]
    /\ UNCHANGED <<config, peticion, pc, respuesta, llamadas, veredicto, conc>>

\* faulty variant: the slot is released only when the call succeeded
TerminarSinLiberar(i, ans) ==
    /\ pc = "gather" /\ unidad[i] = "en_vuelo"
    /\ ret' = [ret EXCEPT ![i] = Resultado(dnis[i], ans)]
    /\ unidad' = [unidad EXCEPT ![i] = "terminada"]
    /\ semaforo' = semaforo + (IF ans = "json" THEN 1 ELSE 0)
    /\ contesta' = [contesta EXCEPT ![i] = ans]
    /\ UNCHANGED <<config, peticion, pc, respuesta, llamadas, veredicto, conc>>

\* faulty variant: the error detail of a unit tells how many slots were free
\* when its call failed
TerminarSegunCupo(i, ans) ==
    /\ pc = "gather" /\ unidad[i] = "en_vuelo"
    /\ ret' = [ret EXCEPT ![i] =
                   IF ans = "json" THEN Resultado(dnis[i], ans)
                   ELSE [dni |-> dnis[i], status |-> "error",
                         detalle |-> <<"excepcion", ans, semaforo>>]]
    /\ unidad' = [unidad EXCEPT ![i] = "terminada"]
    /\ semaforo' = semaforo + 1
    /\ contesta' = [contesta EXCEPT ![i] = ans]
    /\ UNCHANGED <<config, peticion, pc, respuesta, llamadas, veredicto, conc>>

\* the upstream call of unit i finishes: the unit returns and releases its slot
Terminar(i, ans) ==
    /\ pc = "gather" /\ unidad[i] = "en_vuelo"
    /\ ret' = [ret EXCEPT ![i] = Resultado(dnis[i], ans)]
    /\ unidad' = [unidad EXCEPT ![i] = "terminada"]
    /\ semaforo' = semaforo + 1
    /\ contesta' = [contesta EXCEPT ![i] = ans]
    /\ UNCHANGED <<config, peticion, pc, respuesta, llamadas, veredicto, conc>>

\* faulty variant: gather returns as soon as one unit has failed
GatherPrimerFallo ==
    \/ \A i \in DOMAIN unidad : unidad[i] = "terminada"
    \/ \E i \in DOMAIN unidad : unidad[i] = "terminada" /\ ret[i].status = "error"

\* await asyncio.gather(*tareas) is ready to return
GatherListo == \A i \in DOMAIN unidad : unidad[i] = "terminada"

\* faulty variant: the failed units are left out of the list
SoloExitos(r) == SelectSeq(r, LAMBDA x : x.status = "ok")

\* resultados = await asyncio.gather(*tareas)
Resultados(r) == r

RetornarLote ==
    /\ pc = "gather"
    /\ GatherListo
    /\ respuesta' = [status |-> 200, total |-> Len(Resultados(ret)),
                     resultados |-> Resultados(ret)]
    /\ pc' = "done"
    /\ UNCHANGED <<config, peticion, semaforo, unidad, ret, llamadas, contesta, veredicto, conc>>

-----------------------------------------------------------------------------
(* The validator on its own *)

Validar ==
    /\ pc = "validar"
    /\ veredicto' = IF DniValido(dni) THEN "Ok" ELSE "Invalid"
    /\ pc' = "done"
    /\ UNCHANGED <<config, peticion, semaforo, unidad, ret, respuesta, llamadas, contesta, conc>>

-----------------------------------------------------------------------------
(* Specifications *)

Init ==
    /\ SEEKER_TOKEN \in Tokens
    /\ API_KEY \in Claves
    /\ x_api_key \in Cabeceras
    /\ \/ ruta = "dni" /\ dni \in Muestras /\ dnis = << >>
       \/ ruta = "lote" /\ dni = << >> /\ dnis \in Lotes
    /\ pc = "auth"
    /\ semaforo = 0
    /\ unidad = << >>
    /\ ret = << >>
    /\ respuesta = Ninguna
    /\ llamadas = 0
    /\ contesta = << >>
    /\ veredicto = "pendiente"
    /\ conc = << >>

Next ==
    \/ VerificarApiKey
    \/ ConsultarDni
    \/ \E ans \in RespuestasDni : DniPost(ans)
    \/ ConsultarLote
    \/ \E i \in DOMAIN unidad : Iniciar(i)
    \/ \E i \in DOMAIN unidad : Adquirir(i)
    \/ \E i \in DOMAIN unidad, ans \in Respuestas : Terminar(i, ans)
    \/ RetornarLote

Spec == Init /\ [][Next]_vars

\* The event loop runs every task that is ready, and every client.post ends
\* with a response, an error or the timeout of 15: a step that stays possible
\* is eventually taken.
\* Checked for one configuration: the token set, the shared secret set, the
\* header right or absent.
InitJusto ==
    /\ Init
    /\ SEEKER_TOKEN = "tok" /\ API_KEY = "secreta"
    /\ x_api_key \in {"secreta", "None"}

SpecJusto == InitJusto /\ [][Next]_vars /\ WF_vars(Next)

Alfabeto == {"1", "a", "sup2"}
Cadenas == UNION {[1..n -> Alfabeto] : n \in 0..MaxStrLen}

InitVal ==
    /\ SEEKER_TOKEN = "tok"
    /\ API_KEY = ""
    /\ x_api_key = "None"
    /\ ruta = "validador"
    /\ dni \in Cadenas
    /\ dnis = << >>
    /\ pc = "validar"
    /\ semaforo = 0
    /\ unidad = << >>
    /\ ret = << >>
    /\ respuesta = Ninguna
    /\ llamadas = 0
    /\ contesta = << >>
    /\ veredicto = "pendiente"
    /\ conc = << >>

NextVal == Validar

SpecVal == InitVal /\ [][NextVal]_vars

-----------------------------------------------------------------------------
(* Two requests served at the same time *)

(* The handlers above, run by two requests on the one event loop.  conc[r]  *)
(* holds what request r owns: its parameters, the position of its handler,  *)
(* and for a batch the semaphore and the units created by its call of       *)
(* consultar_lote.  The configuration and the header are those of the       *)
(* variables above.                                                         *)

Peticiones == {1, 2}
\* upstream answers of the concurrent specification
RespuestasDos == {"json", "timeout"}

\* faulty variant: one semaphore for the whole process, the first one created
SemCompartido(r) == CHOOSE p \in Peticiones : \A q \in Peticiones : p <= q

\* the semaphore used by the units of request r: the local of its own call
SemDe(r) == r

CupoDe(r) == conc[SemDe(r)].semaforo
EnVueloDe(r) == {i \in DOMAIN conc[r].unidad : conc[r].unidad[i] = "en_vuelo"}

PeticionNueva(rt, d, ds) ==
    [ruta |-> rt, dni |-> d, dnis |-> ds, pc |-> "auth", semaforo |-> 0,
     unidad |-> << >>, ret |-> << >>, respuesta |-> Ninguna, llamadas |-> 0]

VerificarApiKeyR(r) ==
    /\ conc[r].pc = "auth"
    /\ IF ApiKeyRechaza
       THEN conc' = [conc EXCEPT ![r].pc = "done",
                         ![r].respuesta = Error(401, <<"API Key invalida o ausente">>)]
       ELSE conc' = [conc EXCEPT ![r].pc = "handler"]
    /\ UNCHANGED <<config, peticion, pc, semaforo, unidad, ret, respuesta,
                   llamadas, contesta, veredicto>>

ConsultarDniR(r) ==
    /\ conc[r].pc = "handler" /\ conc[r].ruta = "dni"
    /\ IF ~DniValido(conc[r].dni)
       THEN conc' = [conc EXCEPT ![r].pc = "done",
                         ![r].respuesta = Error(400, <<"DNI debe tener exactamente 8 digitos">>)]
       ELSE IF SEEKER_TOKEN = ""
       THEN conc' = [conc EXCEPT ![r].pc = "done",
                         ![r].respuesta = Error(500, <<"SEEKER_TOKEN no configurado en Railway">>)]
       ELSE conc' = [conc EXCEPT ![r].pc = "post", ![r].llamadas = @ + 1]
    /\ UNCHANGED <<config, peticion, pc, semaforo, unidad, ret, respuesta,
                   llamadas, contesta, veredicto>>

DniPostR(r, ans) ==
    /\ conc[r].pc = "post"
    /\ conc' = [conc EXCEPT ![r].pc = "done",
                    ![r].respuesta =
                        IF ans = "json" THEN [status |-> 200, json |-> Json(conc[r].dni)]
                        ELSE IF EsHttpError(ans)
                             THEN Error(StatusDe(ans), <<"Error de seeker.red", ans>>)
                        ELSE IF EsRequestError(ans)
                             THEN Error(503, <<"Error de conexion", ans>>)
                        ELSE Error(500, <<"Internal Server Error">>)]
    /\ UNCHANGED <<config, peticion, pc, semaforo, unidad, ret, respuesta,
                   llamadas, contesta, veredicto>>

ConsultarLoteR(r) ==
    /\ conc[r].pc = "handler" /\ conc[r].ruta = "lote"
    /\ IF ExcedeTope(conc[r].dnis)
       THEN conc' = [conc EXCEPT ![r].pc = "done",
                         ![r].respuesta = Error(400, <<"Maximo 20 DNIs por lote">>)]
       ELSE IF Invalidos(conc[r].dnis) # << >>
       THEN conc' = [conc EXCEPT ![r].pc = "done",
                         ![r].respuesta = Error(400, <<"DNIs invalidos",
                                                       Invalidos(conc[r].dnis)>>)]
       ELSE conc' = [conc EXCEPT
                         ![r].pc = "gather",
                         ![r].unidad = [i \in 1..Len(conc[r].dnis) |-> "creada"],
                         ![r].ret = [i \in 1..Len(conc[r].dnis) |-> Pendiente],
                         ![SemDe(r)].semaforo = K]
    /\ UNCHANGED <<config, peticion, pc, semaforo, unidad, ret, respuesta,
                   llamadas, contesta, veredicto>>

IniciarR(r, i) ==
    /\ conc[r].pc = "gather" /\ conc[r].unidad[i] = "creada"
    /\ \A j \in 1..(i - 1) : conc[r].unidad[j] # "creada"
    /\ IF CupoDe(r) > 0
       THEN conc' = [conc EXCEPT ![r].unidad[i] = "en_vuelo",
                                 ![r].llamadas = @ + 1,
                                 ![SemDe(r)].semaforo = @ - 1]
       ELSE conc' = [conc EXCEPT ![r].unidad[i] = "esperando"]
    /\ UNCHANGED <<config, peticion, pc, semaforo, unidad, ret, respuesta,
                   llamadas, contesta, veredicto>>

AdquirirR(r, i) ==
    /\ conc[r].pc = "gather" /\ conc[r].unidad[i] = "esperando"
    /\ CupoDe(r) > 0
    /\ conc' = [conc EXCEPT ![r].unidad[i] = "en_vuelo",
                            ![r].llamadas = @ + 1,
                            ![SemDe(r)].semaforo = @ - 1]
    /\ UNCHANGED <<config, peticion, pc, semaforo, unidad, ret, respuesta,
                   llamadas, contesta, veredicto>>

TerminarR(r, i, ans) ==
    /\ conc[r].pc = "gather" /\ conc[r].unidad[i] = "en_vuelo"
    /\ conc' = [conc EXCEPT ![r].unidad[i] = "terminada",
                            ![r].ret[i] = Resultado(conc[r].dnis[i], ans),
                            ![SemDe(r)].semaforo = @ + 1]
    /\ UNCHANGED <<config, peticion, pc, semaforo, unidad, ret, respuesta,
                   llamadas, contesta, veredicto>>

RetornarLoteR(r) ==
    /\ conc[r].pc = "gather"
    /\ \A i \in DOMAIN conc[r].unidad : conc[r].unidad[i] = "terminada"
    /\ conc' = [conc EXCEPT ![r].pc = "done",
                    ![r].respuesta = [status |-> 200, total |-> Len(conc[r].ret),
                                      resultados |-> conc[r].ret]]
    /\ UNCHANGED <<config, peticion, pc, semaforo, unidad, ret, respuesta,
                   llamadas, contesta, veredicto>>

\* the first request: a batch of up to MaxKeys keys or a single lookup;
\* the second: a batch of up to MaxOtra keys or a single lookup
InitDos ==
    /\ SEEKER_TOKEN = "tok"
    /\ API_KEY = "secreta"
    /\ x_api_key \in {"secreta", "None"}
    /\ ruta = "dos" /\ dni = << >> /\ dnis = << >>
    /\ pc = "dos"
    /\ semaforo = 0
    /\ unidad = << >>
    /\ ret = << >>
    /\ respuesta = Ninguna
    /\ llamadas = 0
    /\ contesta = << >>
    /\ veredicto = "pendiente"
    /\ \E p1 \in {PeticionNueva("lote", << >>, Alterna(n)) : n \in 0..MaxKeys}
                 \cup {PeticionNueva("dni", V1, << >>)},
          p2 \in {PeticionNueva("lote", << >>, Alterna(n)) : n \in 0..MaxOtra}
                 \cup {PeticionNueva("dni", d, << >>) : d \in {V2, Corto}} :
          conc = <<p1, p2>>

NextDos ==
    \E r \in Peticiones :
        \/ VerificarApiKeyR(r)
        \/ ConsultarDniR(r)
        \/ \E ans \in RespuestasDos : DniPostR(r, ans)
        \/ ConsultarLoteR(r)
        \/ \E i \in DOMAIN conc[r].unidad : IniciarR(r, i)
        \/ \E i \in DOMAIN conc[r].unidad : AdquirirR(r, i)
        \/ \E i \in DOMAIN conc[r].unidad, ans \in RespuestasDos : TerminarR(r, i, ans)
        \/ RetornarLoteR(r)

SpecDos == InitDos /\ [][NextDos]_vars

-----------------------------------------------------------------------------
(* Vocabulary of the properties *)

\* the request does not carry the configured shared secret
CabeceraRechazada == API_KEY # "" /\ x_api_key # API_KEY
\* a LookupKey: exactly 8 ASCII digits
Digitos8(d) == Len(d) = 8 /\ \A i \in 1..Len(d) : d[i] \in AsciiDigitos
\* the batch handler has returned the {total, resultados} body
LoteRespondido == ruta = "lote" /\ pc = "done" /\ respuesta.status = 200
\* the response of the auth gate
Rechazo401 == Error(401, <<"API Key invalida o ausente">>)

-----------------------------------------------------------------------------
(* Properties *)

\* C1: the result list of an accepted batch has one entry per input key, in
\* input order, entry i carrying dnis[i]; a unit's result is only ever held
\* at the unit's own index.
C1_OrdenDeEntrada ==
    ruta = "lote" =>
        /\ \A i \in DOMAIN ret :
              ret[i] # Pendiente => unidad[i] = "terminada" /\ ret[i].dni = dnis[i]
        /\ LoteRespondido =>
              /\ Len(respuesta.resultados) = Len(dnis)
              /\ \A i \in 1..Len(dnis) : respuesta.resultados[i].dni = dnis[i]

\* reached: a batch longer than the budget answered with both outcomes
C1_Testigo ==
    /\ LoteRespondido /\ Len(dnis) > K
    /\ \E i, j \in 1..Len(dnis) :
          /\ respuesta.resultados[i].status = "ok"
          /\ respuesta.resultados[j].status = "error" /\ j < i

\* C2: at most K units of a batch have an upstream call issued and not
\* finished, in every reachable state.
C2_TopeDeConcurrencia ==
    Cardinality({i \in DOMAIN unidad : unidad[i] = "en_vuelo"}) <= K

\* reached: K calls in flight while another unit is waiting for a slot
C2_Testigo ==
    /\ Cardinality({i \in DOMAIN unidad : unidad[i] = "en_vuelo"}) = K
    /\ \E i \in DOMAIN unidad : unidad[i] = "esperando"

\* C3: in the answer of a batch every index has got the upstream's answer to
\* its own call and is "ok" exactly when that answer was a 2xx JSON document,
\* "error" otherwise; so one failing key among N gives "error" at that index
\* only.
C3_AislamientoDeFallos ==
    LoteRespondido =>
        \A i \in 1..Len(dnis) :
            /\ contesta[i] \in Respuestas
            /\ respuesta.resultados[i].status =
                   IF contesta[i] = "json" THEN "ok" ELSE "error"

\* reached: exactly one of N >= 2 calls failed and only its index is "error"
C3_Testigo ==
    /\ LoteRespondido /\ Len(dnis) >= 2
    /\ \E f \in 1..Len(dnis) :
          /\ contesta[f] # "json"
          /\ respuesta.resultados[f].status = "error"
          /\ \A i \in 1..Len(dnis) \ {f} :
                contesta[i] = "json" /\ respuesta.resultados[i].status = "ok"

\* C4: a batch that passed the gate, the size cap and the validation never
\* gets an error response: until it returns there is no response, and it
\* returns the {total, resultados} body with status 200.
C4_LoteSiempreResponde ==
    (/\ ruta = "lote" /\ ~CabeceraRechazada
     /\ Len(dnis) <= MAX_LOTE /\ Invalidos(dnis) = << >>) =>
        IF pc = "done"
        THEN /\ respuesta.status = 200
             /\ DOMAIN respuesta = {"status", "total", "resultados"}
        ELSE respuesta = Ninguna

\* reached: a batch all of whose items failed, answered with status 200
C4_Testigo ==
    /\ LoteRespondido /\ Len(dnis) >= 2
    /\ \A i \in 1..Len(dnis) : respuesta.resultados[i].status = "error"
    /\ \E i \in 1..Len(dnis) : contesta[i] = "no_json"

\* C5: when the batch handler has returned, every unit has finished and has
\* its outcome in the answer; none is waiting for a slot or in flight.
C5_EsperaATodas ==
    LoteRespondido =>
        /\ DOMAIN unidad = 1..Len(dnis)
        /\ \A i \in 1..Len(dnis) :
              /\ unidad[i] = "terminada"
              /\ ret[i] # Pendiente
              /\ respuesta.resultados[i] = ret[i]

\* reached: the first unit failed, later units had to wait, all are joined
C5_Testigo ==
    /\ LoteRespondido /\ Len(dnis) > K
    /\ contesta[1] # "json"
    /\ \A i \in 1..Len(dnis) : unidad[i] = "terminada"

\* C6 as stated: every batch of more than 20 keys is answered 400 and issues
\* no upstream call.
C6_Original ==
    (ruta = "lote" /\ Len(dnis) > MAX_LOTE) =>
        /\ llamadas = 0
        /\ pc = "done" => respuesta.status = 400

\* C6 amended: a batch of more than 20 keys never creates a unit nor issues an
\* upstream call; it is answered 401 by the gate when the shared secret is
\* configured and not presented, and otherwise 400 by the size cap, whether
\* its keys are valid or not.
C6_TopeAntesDeTodo ==
    (ruta = "lote" /\ Len(dnis) > MAX_LOTE) =>
        /\ llamadas = 0 /\ unidad = << >>
        /\ pc \in {"auth", "handler", "done"}
        /\ pc = "done" =>
              respuesta = IF CabeceraRechazada THEN Rechazo401
                          ELSE Error(400, <<"Maximo 20 DNIs por lote">>)

\* reached: 21 keys, all valid, rejected by the size cap
C6_Testigo ==
    /\ ruta = "lote" /\ pc = "done"
    /\ Len(dnis) = MAX_LOTE + 1 /\ \A i \in 1..Len(dnis) : Digitos8(dnis[i])
    /\ respuesta = Error(400, <<"Maximo 20 DNIs por lote">>)

\* C7 as stated, for a request that passes the gate: a batch of at most 20
\* keys with a key that is not 8 ASCII digits is answered 400 with the list of
\* exactly those keys, in input order, and issues no upstream call.
C7_Original ==
    (/\ ruta = "lote" /\ ~CabeceraRechazada /\ Len(dnis) <= MAX_LOTE
     /\ \E i \in 1..Len(dnis) : ~Digitos8(dnis[i])) =>
        /\ llamadas = 0
        /\ pc = "done" =>
              respuesta = Error(400, <<"DNIs invalidos",
                                       SelectSeq(dnis, LAMBDA d : ~Digitos8(d))>>)

\* C8 as stated: the validator accepts a string exactly when it is 8 ASCII
\* digits.
C8_Original ==
    pc = "done" => (veredicto = "Ok" <=> Digitos8(dni))

\* C9 as stated: a single lookup of a valid key without SEEKER_TOKEN is
\* answered 500 and issues no upstream call.
C9_Original ==
    (ruta = "dni" /\ Digitos8(dni) /\ SEEKER_TOKEN = "") =>
        /\ llamadas = 0
        /\ pc = "done" => respuesta.status = 500

\* C9 amended: a single lookup of a valid key without SEEKER_TOKEN never
\* issues an upstream call; it is answered 401 by the gate when the shared
\* secret is configured and not presented, and otherwise 500 by the
\* credential check.
C9_SinTokenSinLlamada ==
    (ruta = "dni" /\ Digitos8(dni) /\ SEEKER_TOKEN = "") =>
        /\ llamadas = 0 /\ pc # "post"
        /\ pc = "done" =>
              respuesta = IF CabeceraRechazada THEN Rechazo401
                          ELSE Error(500, <<"SEEKER_TOKEN no configurado en Railway">>)

\* reached: valid key, no token, gate passed, answered 500
C9_Testigo ==
    /\ ruta = "dni" /\ dni = V1 /\ SEEKER_TOKEN = "" /\ pc = "done"
    /\ ~CabeceraRechazada
    /\ respuesta.status = 500 /\ llamadas = 0

\* C10 as stated: with a shared secret configured, a request whose header is
\* missing or different never reaches the handler, issues no upstream call
\* and is answered 401; with no shared secret configured no request is ever
\* answered 401.
C10_Original ==
    /\ CabeceraRechazada =>
          /\ pc \in {"auth", "done"}
          /\ llamadas = 0 /\ unidad = << >>
          /\ pc = "done" => respuesta = Rechazo401
    /\ API_KEY = "" => respuesta.status # 401

\* C10 amended: the first half as stated; with no shared secret configured the
\* gate rejects no request, whatever the header, and a 401 is then only ever
\* the upstream's own 401 passed through by the single lookup.
C10_PuertaOpcional ==
    /\ CabeceraRechazada =>
          /\ pc \in {"auth", "done"}
          /\ llamadas = 0 /\ unidad = << >>
          /\ pc = "done" => respuesta = Rechazo401
    /\ API_KEY = "" =>
          /\ respuesta # Rechazo401
          /\ respuesta.status = 401 => ruta = "dni" /\ contesta = <<"http_401">>

\* reached: secret configured, header absent, malformed key and no token:
\* answered 401
C10_Testigo ==
    /\ API_KEY # "" /\ x_api_key = "None" /\ SEEKER_TOKEN = ""
    /\ ruta = "dni" /\ ~Digitos8(dni)
    /\ pc = "done" /\ respuesta = Rechazo401


\* C11: in the answer of a batch total is the number of input keys and every
\* item is either "ok" with data and no detalle, or "error" with detalle and
\* no data.
C11_UnaVariantePorItem ==
    LoteRespondido =>
        /\ respuesta.total = Len(dnis)
        /\ Len(respuesta.resultados) = Len(dnis)
        /\ \A i \in 1..Len(dnis) :
              LET item == respuesta.resultados[i] IN
              \/ item.status = "ok" /\ DOMAIN item = {"dni", "status", "data"}
              \/ item.status = "error" /\ DOMAIN item = {"dni", "status", "detalle"}

\* reached: an answer whose first item is "ok" and whose second is "error"
C11_Testigo ==
    /\ LoteRespondido /\ Len(dnis) >= 2 /\ respuesta.total = Len(dnis)
    /\ "data" \in DOMAIN respuesta.resultados[1]
    /\ "detalle" \in DOMAIN respuesta.resultados[2]

\* C12: every position of an accepted batch issues exactly one upstream call:
\* the calls issued so far are the units that have started their call, a
\* finished unit issues no other, and the answer is given after exactly
\* Len(dnis) calls (none for the empty list, whose result is empty); a single
\* lookup issues at most one call.
C12_UnaLlamadaPorClave ==
    /\ ruta = "lote" =>
          /\ llamadas = Cardinality({i \in DOMAIN unidad :
                                        unidad[i] \in {"en_vuelo", "terminada"}})
          /\ LoteRespondido =>
                /\ llamadas = Len(dnis)
                /\ Len(dnis) = 0 => respuesta.resultados = << >>
    /\ ruta = "dni" => llamadas <= 1

\* reached: a batch with repeated keys and a failed position, answered after
\* one call per position
C12_Testigo ==
    /\ LoteRespondido /\ Len(dnis) >= 3 /\ dnis[1] = dnis[3]
    /\ contesta[1] = "timeout"
    /\ llamadas = Len(dnis)


\* C13: a single lookup whose upstream call did not give a JSON 2xx document
\* is answered with an error and never with a success payload: the upstream's
\* own status when it answered non-2xx, 503 when the request could not be
\* completed.
C13_ErroresDeConsultaUnica ==
    (ruta = "dni" /\ pc = "done" /\ llamadas = 1) =>
        /\ contesta[1] = "http_404" => respuesta.status = 404
        /\ contesta[1] = "http_401" => respuesta.status = 401
        /\ contesta[1] = "timeout" => respuesta.status = 503
        /\ contesta[1] # "json" =>
              /\ respuesta.status \in 400..599
              /\ DOMAIN respuesta = {"status", "detail"}

\* reached: the upstream answered 404 and the caller got 404
C13_Testigo ==
    /\ ruta = "dni" /\ pc = "done" /\ llamadas = 1
    /\ contesta = <<"http_404">>
    /\ respuesta.status = 404

\* C14: while a batch is dispatched the free slots stay within 0..K, the
\* slots taken are exactly those of the units with a call in flight (a unit
\* that is created, waiting or finished holds none, whatever its outcome), and
\* all K slots are free when the batch returns.
C14_SinFugaDeCupos ==
    (ruta = "lote" /\ (pc = "gather" \/ LoteRespondido)) =>
        /\ semaforo \in 0..K
        /\ semaforo + Cardinality({i \in DOMAIN unidad : unidad[i] = "en_vuelo"}) = K
        /\ LoteRespondido => semaforo = K

\* reached: a batch longer than the budget returned with all slots free after
\* a success, an HTTP error, a timeout and an unexpected error
C14_Testigo ==
    /\ LoteRespondido /\ Len(dnis) > K /\ semaforo = K
    /\ \A a \in Respuestas : \E i \in 1..Len(dnis) : contesta[i] = a


\* C15: under fair scheduling and upstream calls that end, every accepted
\* batch eventually returns its answer, and every unit that waits for a slot
\* eventually gets one and issues its call, also when calls fail.
C15_TerminaSinBloqueo ==
    /\ (ruta = "lote" /\ pc = "gather") ~> (pc = "done" /\ respuesta.status = 200)
    /\ \A i \in 1..MaxKeys :
          (i \in DOMAIN unidad /\ unidad[i] = "esperando")
              ~> (i \in DOMAIN unidad /\ unidad[i] = "en_vuelo")

\* reached: a unit waits for a slot after another unit's call has failed
C15_Testigo ==
    /\ ruta = "lote" /\ pc = "gather"
    /\ \E i \in DOMAIN unidad : unidad[i] = "esperando"
    /\ \E j \in DOMAIN unidad : unidad[j] = "terminada" /\ contesta[j] = "timeout"


\* C16 as stated, for a request that passes the gate: a valid, non-empty batch
\* sent while SEEKER_TOKEN is empty issues no upstream call and is answered
\* with the configuration error, as the single lookup is.
C16_Original ==
    (/\ ruta = "lote" /\ ~CabeceraRechazada /\ SEEKER_TOKEN = ""
     /\ Len(dnis) \in 1..MAX_LOTE /\ \A i \in 1..Len(dnis) : Digitos8(dnis[i])) =>
        /\ llamadas = 0
        /\ pc = "done" => respuesta.status = 500


\* C17: of two requests served at the same time, each batch has at most K
\* calls in flight and its free slots plus its own calls in flight are always
\* K, so a unit that finds no free slot waits for K units of its own batch,
\* never for a unit of the other request; a single lookup owns no semaphore
\* and no unit, and its next step is possible whatever the batches hold.
C17_CupoPorLote ==
    \A r \in DOMAIN conc :
        /\ conc[r].pc = "gather" =>
              /\ Cardinality(EnVueloDe(r)) <= K
              /\ conc[r].semaforo + Cardinality(EnVueloDe(r)) = K
              /\ (\E i \in DOMAIN conc[r].unidad : conc[r].unidad[i] = "esperando")
                    => conc[r].semaforo > 0 \/ Cardinality(EnVueloDe(r)) = K
        /\ conc[r].ruta = "dni" =>
              /\ conc[r].semaforo = 0 /\ conc[r].unidad = << >>
              /\ conc[r].pc = "handler" => ENABLED ConsultarDniR(r)
              /\ conc[r].pc = "post" => ENABLED DniPostR(r, "json")

\* reached: the first batch has K calls in flight and a unit waiting while
\* the second batch has calls in flight and free slots of its own
C17_Testigo ==
    /\ DOMAIN conc = Peticiones
    /\ conc[1].pc = "gather" /\ conc[2].pc = "gather"
    /\ Cardinality(EnVueloDe(1)) = K
    /\ \E i \in DOMAIN conc[1].unidad : conc[1].unidad[i] = "esperando"
    /\ Cardinality(EnVueloDe(2)) >= 1 /\ conc[2].semaforo > 0

\* reached: a single lookup has issued its call while a batch has K calls in
\* flight and a unit waiting
C17_TestigoConsulta ==
    /\ DOMAIN conc = Peticiones
    /\ conc[2].ruta = "dni" /\ conc[2].pc = "post"
    /\ conc[1].pc = "gather" /\ Cardinality(EnVueloDe(1)) = K
    /\ \E i \in DOMAIN conc[1].unidad : conc[1].unidad[i] = "esperando"


\* C18: in a batch of at most K keys no unit is ever refused a slot: none
\* waits, a slot is free whenever a unit has still to start, and the slots
\* beyond the number of keys are never taken, as with a budget of exactly
\* Len(dnis).
C18_CupoDeSobra ==
    (ruta = "lote" /\ pc = "gather" /\ Len(dnis) <= K) =>
        /\ \A i \in DOMAIN unidad : unidad[i] # "esperando"
        /\ (\E i \in DOMAIN unidad : unidad[i] = "creada") => semaforo > 0
        /\ semaforo >= K - Len(dnis)

\* reached: the K calls of a batch of K keys are in flight at the same time
C18_Testigo ==
    /\ ruta = "lote" /\ pc = "gather" /\ Len(dnis) = K
    /\ \A i \in DOMAIN unidad : unidad[i] = "en_vuelo"
    /\ semaforo = 0


\* the item a key and the upstream's answer to its call determine
ItemEsperado(d, a) ==
    IF a = "json" THEN [dni |-> d, status |-> "ok", data |-> <<"persona", d>>]
    ELSE [dni |-> d, status |-> "error", detalle |-> <<"excepcion", a>>]

\* C19: the answer of a batch is a function of the key list and of the
\* upstream's answer to each position alone: whatever the order in which the
\* units started, got their slot and finished, it is the same list, so two
\* runs with the same keys and the same answers give identical results.
C19_AgregacionDeterminista ==
    LoteRespondido =>
        respuesta = [status |-> 200, total |-> Len(dnis),
                     resultados |-> [i \in 1..Len(dnis) |->
                                        ItemEsperado(dnis[i], contesta[i])]]

\* reached: a batch longer than the budget whose first calls failed in
\* different ways and whose last call succeeded
C19_Testigo ==
    /\ LoteRespondido /\ Len(dnis) > K
    /\ contesta[1] = "no_json" /\ contesta[2] = "http_404"
    /\ contesta[Len(dnis)] = "json"

\* C20 as stated: the single lookup is answered by the first failing check in
\* the order gate, key format, credential, and issues an upstream call only
\* when the header is accepted, the key is 8 ASCII digits and the token is
\* set; a malformed key without token is answered 400.
C20_Original ==
    ruta = "dni" =>
        /\ llamadas > 0 => ~CabeceraRechazada /\ Digitos8(dni) /\ SEEKER_TOKEN # ""
        /\ pc = "done" =>
              IF CabeceraRechazada THEN respuesta.status = 401
              ELSE IF ~Digitos8(dni) THEN respuesta.status = 400
              ELSE IF SEEKER_TOKEN = "" THEN respuesta.status = 500
              ELSE llamadas = 1

=============================================================================
